---- MODULE Spec2Model ----
(***************************************************************************)
(* Model of the CVRP / VRPTW notebooks (cvrp.ipynb, vrptw.ipynb).          *)
(*                                                                         *)
(* The notebooks are a pipeline of cells: instance generation, basic      *)
(* route model, load (and time) model, model.optimize(), solution         *)
(* retrieval, IIS computation.  Every cell is an action.  The MILP solver *)
(* is external: model.optimize() is the nondeterministic choice of any    *)
(* binary arc selection x for which the constraint families that the      *)
(* cells added to the model admit values of their auxiliary variables.    *)
(*                                                                         *)
(* Continuous auxiliary variables range over integers here.  With x       *)
(* fixed to binary values and integer instance data, every constraint     *)
(* family below is a system of difference constraints or of network-flow  *)
(* equalities with integer bounds, so a real solution exists iff an       *)
(* integer one does.                                                      *)
(***************************************************************************)
EXTENDS Integers, Sequences, FiniteSets, TLC

\* ------------------------------------------------------------------ bounds
numCustomers == 3
MaxDemand    == 2
MaxCapacity  == 2
MaxVehicles  == 2
MaxCoord     == 1      \* points lie in (0..MaxCoord) x (0..MaxCoord)
timeHorizon  == 2
MaxService   == 1      \* service times lie in 0..MaxService

\* ------------------------------------------------------- instance (cell 4)
depot       == 0
customers   == 1..numCustomers
locations   == {depot} \cup customers
connections == {c \in locations \X locations : c[1] # c[2]}

VARIABLES
    points,                \* points[i]: position of location i
    costs,                 \* costs[i,j]
    demands,               \* demands[i], demands[0] = 0
    vehicleCapacity,
    maxNumVehicles,
    travelTimes,           \* travelTimes[i,j]                    (vrptw)
    serviceTimes,          \* serviceTimes[i], serviceTimes[0] = 0 (vrptw)
    timeWindows,           \* timeWindows[i] = <<a_i, b_i>>        (vrptw)
    timeWindowWidthRange,  \* INSTANCE CONFIGURATION               (vrptw)
    vehicleIndexedRoutes,  \* MODEL CONFIGURATION cells
    capacityCuts,
    loadModelType,
    timeModelType,         \*                                      (vrptw)
    model,                 \* names of the constraint families added so far
    SolCount,              \* model.SolCount after optimize()
    Status,                \* model.Status after optimize()
    ObjVal,                \* model.ObjVal after optimize()
    x,                     \* set of arcs (i,j) with x[i,j].X > 0.5
    pc,                    \* position in the notebook
    usedConnections,       \* list of the arcs with x[i,j].X > 0.5
    nextCustomer,          \* dict built by the retrieval cell
    numRoutes,             \* number printed by "Solution contains .. routes"
    routeNumber,
    visitedCustomers,
    vehicleLoad,
    currentCustomer,
    time,                  \*                                      (vrptw)
    violatedTimeWindows,   \*                                      (vrptw)
    currentRoute,          \* customers printed so far on the current line
    routes,                \* printed route lines
    unvisited,             \* printed "Unvisited customers"
    iis                    \* TRUE once computeIIS()/write("iis.ilp") has run

instance == <<points, costs, demands, vehicleCapacity, maxNumVehicles,
              travelTimes, serviceTimes, timeWindows, timeWindowWidthRange>>
config   == <<vehicleIndexedRoutes, capacityCuts, loadModelType, timeModelType>>
solver   == <<SolCount, Status, ObjVal, x>>
decoder  == <<usedConnections, nextCustomer, numRoutes, routeNumber, visitedCustomers,
              vehicleLoad, currentCustomer, currentRoute, routes, unvisited>>
clock    == <<time, violatedTimeWindows>>
vars     == <<instance, config, model, solver, pc, decoder, clock, iis>>

vehicles == 1..maxNumVehicles

\* ------------------------------------------------------------ arithmetic
RECURSIVE Sum(_, _)
Sum(f, S) ==
    IF S = {} THEN 0
    ELSE LET s == CHOOSE e \in S : TRUE IN f[s] + Sum(f, S \ {s})

\* mutant: integer division, rounding down
Ceil_Floor(a, b) == a \div b
\* math.ceil(a / b) for integers a >= 0, b > 0
Ceil(a, b) == (a + b - 1) \div b

\* math.ceil(math.sqrt(n)) for an integer n >= 0
CeilSqrt(n) == CHOOSE r \in 0..n : r * r >= n /\ (r = 0 \/ (r - 1) * (r - 1) < n)

\* costs[i,j]: Euclidean distance of the points, rounded up
Distance(p, q) ==
    CeilSqrt((p[1] - q[1]) * (p[1] - q[1]) + (p[2] - q[2]) * (p[2] - q[2]))

\* value of the binary variable x[i,j] in the arc selection xx
X(xx, i, j) == IF <<i, j>> \in xx THEN 1 ELSE 0

\* the connections (i, j) for all i, and (j, i) for all i
ArcsInto(j) == {<<i, j>> : i \in locations \ {j}}
ArcsOutOf(j) == {<<j, i>> : i \in locations \ {j}}

\* x.sum("*", j) and x.sum(i, "*")
XSumIn(xx, j)  == Cardinality({c \in xx : c[2] = j})
XSumOut(xx, i) == Cardinality({c \in xx : c[1] = i})

\* mutant: one vehicle more than the rounded quotient
numVehiclesNeededForCustomers_PlusOne(S) ==
    Ceil(Sum(demands, S), vehicleCapacity) + 1
numVehiclesNeededForCustomers(S) ==
    Ceil(Sum(demands, S), vehicleCapacity)

\* ------------------------------------------- basic route model (cell 8)
\* x.prod(costs)
Objective(xx) == Sum(costs, xx)

incoming(xx)  == \A j \in customers : XSumIn(xx, j) = 1
outgoing(xx)  == \A i \in customers : XSumOut(xx, i) = 1
maxNumVehiclesConstr(xx) == XSumOut(xx, 0) <= maxNumVehicles
minNumVehiclesConstr(xx) ==
    XSumOut(xx, 0) >= numVehiclesNeededForCustomers(customers)

BaseRouteConstraints(xx) ==
    /\ incoming(xx)
    /\ outgoing(xx)
    /\ maxNumVehiclesConstr(xx)
    /\ minNumVehiclesConstr(xx)

\* vehicle-indexed variant: v[i,j,k] binary.  "linking" gives every selected
\* arc exactly one vehicle and every unselected arc none, so an assignment
\* of v is a vehicle per selected arc.
VValue(xx, veh, i, j, k) ==
    IF <<i, j>> \in xx /\ veh[<<i, j>>] = k THEN 1 ELSE 0
VSumArc(xx, veh, i, j) ==
    Cardinality({k \in vehicles : VValue(xx, veh, i, j, k) = 1})
VSumIn(xx, veh, j, k) ==
    Cardinality({c \in xx : c[2] = j /\ veh[c] = k})
VSumOut(xx, veh, j, k) ==
    Cardinality({c \in xx : c[1] = j /\ veh[c] = k})
\* mutant: every connection is given to one vehicle, used or not
linking_One(xx, veh) ==
    \A c \in connections : VSumArc(xx, veh, c[1], c[2]) = 1
linking(xx, veh) ==
    \A c \in connections : VSumArc(xx, veh, c[1], c[2]) = X(xx, c[1], c[2])
vehicleFlowConservation(xx, veh) ==
    \A j \in customers : \A k \in vehicles :
        VSumIn(xx, veh, j, k) = VSumOut(xx, veh, j, k)
VehicleIndexedFeasible(xx) ==
    \E veh \in [xx -> vehicles] :
        linking(xx, veh) /\ vehicleFlowConservation(xx, veh)

\* ------------------------------------------- rounded capacity cuts (cell 12)
\* the constraint capcut2[i,j]
capcut2At(xx, i, j) ==
    X(xx, i, j) + X(xx, j, i) <= 2 - numVehiclesNeededForCustomers({i, j})
capcut2(xx) ==
    \A i \in customers : \A j \in (i + 1)..numCustomers :
        capcut2At(xx, i, j)
\* mutant: the triple cut without the arcs between j and k
capcut3At_NoJK(xx, i, j, k) ==
    X(xx, i, j) + X(xx, j, i) + X(xx, i, k) + X(xx, k, i)
        <= 3 - numVehiclesNeededForCustomers({i, j, k})
\* the constraint capcut3[i,j,k]
capcut3At(xx, i, j, k) ==
    X(xx, i, j) + X(xx, j, i) + X(xx, i, k) + X(xx, k, i)
      + X(xx, j, k) + X(xx, k, j)
        <= 3 - numVehiclesNeededForCustomers({i, j, k})
\* mutant: the right-hand side of the pair cut is used for triples
capcut3_PairRhs(xx) ==
    \A i \in customers : \A j \in (i + 1)..numCustomers :
      \A k \in (j + 1)..numCustomers :
        X(xx, i, j) + X(xx, j, i) + X(xx, i, k) + X(xx, k, i)
          + X(xx, j, k) + X(xx, k, j)
            <= 2 - numVehiclesNeededForCustomers({i, j, k})
capcut3(xx) ==
    \A i \in customers : \A j \in (i + 1)..numCustomers :
      \A k \in (j + 1)..numCustomers :
        capcut3At(xx, i, j, k)

\* ------------------------------------------------------ Big-M load model
\* y[i] in [0, vehicleCapacity], y[0].UB = 0
YAssignments ==
    {[i \in locations |-> IF i = 0 THEN 0 ELSE g[i]] :
        g \in [customers -> 0..vehicleCapacity]}
\* mutant: the demand picked up at j is not added
loadBigM1_NoDemand(xx, y) ==
    \A i \in locations : \A j \in customers : i # j =>
        y[i] <= y[j] + vehicleCapacity * (1 - X(xx, i, j))
loadBigM1(xx, y) ==
    \A i \in locations : \A j \in customers : i # j =>
        y[i] + demands[j] <= y[j] + vehicleCapacity * (1 - X(xx, i, j))
\* mutant: the demand of the tail is added on the left-hand side
loadBigM2_TailDemand(xx, y) ==
    \A i \in locations : \A j \in customers : i # j =>
        y[i] + demands[i] + demands[j]
            >= y[j] - (vehicleCapacity - demands[i] - demands[j])
                        * (1 - X(xx, i, j))
loadBigM2(xx, y) ==
    \A i \in locations : \A j \in customers : i # j =>
        y[i] + demands[j]
            >= y[j] - (vehicleCapacity - demands[i] - demands[j])
                        * (1 - X(xx, i, j))
addVehicleLoadConstraintsByBigM(xx) ==
    \E y \in YAssignments : loadBigM1(xx, y) /\ loadBigM2(xx, y)

\* --------------------------------------------- single-commodity flow model
\* z[i,j] in [0, vehicleCapacity], z[0,i].UB = 0.  loadUpperBound and the
\* lower bound 0 force z = 0 on every unselected arc leaving a customer, so
\* the assignments are the values on the selected arcs leaving customers.
ZAssignments(xx) ==
    {[c \in connections |-> IF c[1] # 0 /\ c \in xx THEN g[c] ELSE 0] :
        g \in [{c \in xx : c[1] # 0} -> 0..vehicleCapacity]}
ZSumIn(z, j)  == Sum(z, ArcsInto(j))
ZSumOut(z, j) == Sum(z, ArcsOutOf(j))
loadFlowConservation(z) ==
    \A j \in customers : ZSumIn(z, j) + demands[j] = ZSumOut(z, j)
loadLowerBound(xx, z) ==
    \A i \in customers : \A j \in locations : i # j =>
        z[<<i, j>>] >= demands[i] * X(xx, i, j)
\* mutant: the bound also subtracts the demand of the tail
loadUpperBound_TailDemand(xx, z) ==
    \A i \in customers : \A j \in locations : i # j =>
        z[<<i, j>>]
            <= (vehicleCapacity - demands[i] - demands[j]) * X(xx, i, j)
loadUpperBound(xx, z) ==
    \A i \in customers : \A j \in locations : i # j =>
        z[<<i, j>>] <= (vehicleCapacity - demands[j]) * X(xx, i, j)
addVehicleLoadConstraintsByFlows(xx) ==
    \E z \in ZAssignments(xx) :
        /\ loadLowerBound(xx, z)
        /\ loadUpperBound(xx, z)
        /\ loadFlowConservation(z)

\* ---------------------------------------------- multi-commodity flow model
\* f[i,j,c] in [0,1], f[i,j,c].UB = 0 if i == 0 or c == j.  "links" forces
\* f = 0 on unselected arcs.  Every constraint except "capacity" speaks of
\* one commodity only, and "capacity" is monotone in f, so the assignments
\* are built commodity by commodity from 0/1 values on the selected arcs.
FAssignmentsOf(xx, c) ==
    {[a \in connections |->
        IF a \in xx /\ a[1] # 0 /\ a[2] # c THEN g[a] ELSE 0] :
        g \in [{a \in xx : a[1] # 0 /\ a[2] # c} -> 0..1]}
FSumIn(h, j)  == Sum(h, ArcsInto(j))
FSumOut(h, j) == Sum(h, ArcsOutOf(j))
pickup(h, c)      == FSumOut(h, c) = 1
return(h, c)      == FSumIn(h, 0) = 1
commodityFlowConservation(h, c) ==
    \A j \in customers : c # j => FSumIn(h, j) = FSumOut(h, j)
links(xx, h) ==
    \A a \in connections : h[a] <= X(xx, a[1], a[2])
capacity(xx, f) ==
    \A a \in connections :
        Sum([c \in customers |-> demands[c] * f[c][a]], customers)
            <= (vehicleCapacity - demands[a[2]]) * X(xx, a[1], a[2])
CommodityFlows(xx, c) ==
    {h \in FAssignmentsOf(xx, c) :
        /\ pickup(h, c)
        /\ return(h, c)
        /\ commodityFlowConservation(h, c)
        /\ links(xx, h)}
RECURSIVE FAssignments(_, _)
FAssignments(xx, cs) ==
    IF cs = {} THEN {[c \in {} |-> 0]}
    ELSE LET c == CHOOSE e \in cs : TRUE
         IN  {[e \in cs |-> IF e = c THEN h ELSE f[e]] :
                 f \in FAssignments(xx, cs \ {c}),
                 h \in CommodityFlows(xx, c)}
addVehicleLoadConstraintsByMultiCommodityFlows(xx) ==
    \E f \in FAssignments(xx, customers) : capacity(xx, f)

\* ------------------------------------------------------- discretized model
\* w[i,j,d] binary for d in loadValues, w[0,j,d].UB = 0 for d # 0.  An
\* assignment is the set of triples with w = 1; "linking" gives every
\* selected arc exactly one load value and every unselected arc none.
loadValues == 0..vehicleCapacity
WAssignments(xx) ==
    {{<<a[1], a[2], IF a[1] = 0 THEN 0 ELSE lev[a]>> : a \in xx} :
        lev \in [{a \in xx : a[1] # 0} -> loadValues]}
\* w.sum("*", j, d) and w.sum(j, "*", d); a sum over no key is 0
WSumIn(w, j, d)  == Cardinality({t \in w : t[2] = j /\ t[3] = d})
WSumOut(w, j, d) == Cardinality({t \in w : t[1] = j /\ t[3] = d})
WSumArc(w, i, j) == Cardinality({t \in w : t[1] = i /\ t[2] = j})
discretizedFlowConservation(w) ==
    \A j \in customers : \A d \in loadValues :
        WSumIn(w, j, d) = WSumOut(w, j, d + demands[j])
discretizedLinking(xx, w) ==
    \A a \in connections : X(xx, a[1], a[2]) = WSumArc(w, a[1], a[2])
addVehicleLoadConstraintsByDiscretization(xx) ==
    \E w \in WAssignments(xx) :
        discretizedFlowConservation(w) /\ discretizedLinking(xx, w)

\* ------------------------------------------- time models (vrptw.ipynb)
\* start-time variables y[i] with LB = timeWindows[i][0], UB = timeWindows[i][1];
\* the constraints are difference constraints with integer data, so integer
\* values suffice
YTimes ==
    {y \in [locations -> 0..timeHorizon] :
        \A i \in locations : /\ timeWindows[i][1] <= y[i]
                              /\ y[i] <= timeWindows[i][2]}

\* mutant: the service time is left out
timeBigM_NoService(xx, y) ==
    \A i \in locations : \A j \in customers : i # j =>
        y[i] + travelTimes[<<i, j>>]
            <= y[j] + (timeWindows[i][2] + serviceTimes[i]
                         + travelTimes[<<i, j>>] - timeWindows[j][1])
                      * (1 - X(xx, i, j))
timeBigM(xx, y) ==
    \A i \in locations : \A j \in customers : i # j =>
        y[i] + serviceTimes[i] + travelTimes[<<i, j>>]
            <= y[j] + (timeWindows[i][2] + serviceTimes[i]
                         + travelTimes[<<i, j>>] - timeWindows[j][1])
                      * (1 - X(xx, i, j))

addTimeConstraintsByBigM(xx) == \E y \in YTimes : timeBigM(xx, y)

\* z[i,j] in [0, timeWindows[i][1]] for the connections leaving a customer
ZTimes ==
    [{c \in connections : c[1] # 0} -> 0..timeHorizon]

\* z[0,j] in [0, timeWindows[0][1]]: the code sets no further bound on it
ZDepotTimes == 0..timeWindows[0][2]

ZTimeUB(z) ==
    \A c \in DOMAIN z : z[c] <= timeWindows[c[1]][2]

\* constraint flowConservation of customer j; z0j is the value of z[0,j]
timeFlowConservation(xx, z, z0j, j) ==
    z0j + (serviceTimes[0] + travelTimes[<<0, j>>]) * X(xx, 0, j)
      + Sum([i \in customers \ {j} |->
               z[<<i, j>>] + (serviceTimes[i] + travelTimes[<<i, j>>])
                                * X(xx, i, j)],
            customers \ {j})
        <= Sum([c \in ArcsOutOf(j) |-> z[c]], ArcsOutOf(j))

timeWindowStart(xx, z) ==
    \A i \in customers : \A j \in locations : i # j =>
        z[<<i, j>>] >= timeWindows[i][1] * X(xx, i, j)

timeWindowEnd(xx, z) ==
    \A i \in customers : \A j \in locations : i # j =>
        z[<<i, j>>] <= timeWindows[i][2] * X(xx, i, j)

\* The values that timeWindowStart and timeWindowEnd leave to z on the
\* connections leaving a customer
ZTimeAssignments(xx) ==
    {[c \in {d \in connections : d[1] # 0} |->
         IF c \in xx THEN g[c[1]] ELSE 0] :
        g \in {h \in [customers -> 0..timeHorizon] :
                  \A i \in customers : /\ timeWindows[i][1] <= h[i]
                                        /\ h[i] <= timeWindows[i][2]}}

\* z[0,j] occurs in the flowConservation constraint of j only, so it is
\* chosen for each customer j by itself
addTimeConstraintsByFlows(xx) ==
    \E z \in ZTimeAssignments(xx) :
        /\ z \in ZTimes
        /\ ZTimeUB(z)
        /\ timeWindowStart(xx, z)
        /\ timeWindowEnd(xx, z)
        /\ \A j \in customers :
               \E z0j \in ZDepotTimes : timeFlowConservation(xx, z, z0j, j)

\* ------------------------------------------------------------ the model
\* constraint families added by the basic route model cell
BasicFamilies(vir) ==
    {"incoming", "outgoing", "maxNumVehicles", "minNumVehicles"}
        \cup (IF vir = 1 THEN {"vehicleIndexed"} ELSE {})

\* addRoundedCapacityCuts(), called if capacityCuts > 0
CutFamilies(cc) ==
    IF cc > 0
    THEN (IF cc >= 2 THEN {"capcut2"} ELSE {})
            \cup (IF cc >= 3 THEN {"capcut3"} ELSE {})
    ELSE {}

\* the if / elif chain on loadModelType
LoadFamilies(lmt) ==
    IF lmt = 1 THEN {"BigM"}
    ELSE IF lmt = 2 THEN {"Flows"}
    ELSE IF lmt = 3 THEN {"MultiCommodityFlows"}
    ELSE IF lmt = 4 THEN {"Discretization"}
    ELSE {}

\* vrptw.ipynb: the if / elif chain on loadModelType
LoadFamiliesTW(lmt) ==
    IF lmt = 1 THEN {"BigM"}
    ELSE IF lmt = 2 THEN {"Flows"}
    ELSE {}

\* vrptw.ipynb: the if / elif chain on timeModelType
TimeFamilies(tmt) ==
    IF tmt = 1 THEN {"timeBigM"}
    ELSE IF tmt = 2 THEN {"timeFlows"}
    ELSE {}

\* xx is feasible for the constraint families in m
Feasible(m, xx) ==
    /\ "incoming" \in m => incoming(xx)
    /\ "outgoing" \in m => outgoing(xx)
    /\ "maxNumVehicles" \in m => maxNumVehiclesConstr(xx)
    /\ "minNumVehicles" \in m => minNumVehiclesConstr(xx)
    /\ "capcut2" \in m => capcut2(xx)
    /\ "capcut3" \in m => capcut3(xx)
    /\ "BigM" \in m => addVehicleLoadConstraintsByBigM(xx)
    /\ "Flows" \in m => addVehicleLoadConstraintsByFlows(xx)
    /\ "MultiCommodityFlows" \in m
           => addVehicleLoadConstraintsByMultiCommodityFlows(xx)
    /\ "Discretization" \in m
           => addVehicleLoadConstraintsByDiscretization(xx)
    /\ "vehicleIndexed" \in m => VehicleIndexedFeasible(xx)
    /\ "timeBigM" \in m => addTimeConstraintsByBigM(xx)
    /\ "timeFlows" \in m => addTimeConstraintsByFlows(xx)

\* The binary arc selections with exactly one selected arc leaving every
\* customer: the search space of the solver once "outgoing" is in the model.
ArcSelections ==
    {{<<i, s[i]>> : i \in customers} \cup {<<0, j>> : j \in D} :
        s \in {t \in [customers -> locations] : \A i \in customers : t[i] # i},
        D \in SUBSET customers}

\* ... and exactly one selected arc entering every customer
DegreeSelections == {xx \in ArcSelections : incoming(xx)}

Solutions(m) ==
    {xx \in (IF "incoming" \in m THEN DegreeSelections ELSE ArcSelections) :
        Feasible(m, xx)}

Minimum(S) == CHOOSE m \in S : \A n \in S : m <= n

\* ---------------------------------------------------------------- actions
NoDecoder ==
    /\ usedConnections = <<>>
    /\ nextCustomer = <<>>
    /\ numRoutes = -1
    /\ routeNumber = 0
    /\ visitedCustomers = [c \in locations |-> FALSE]
    /\ vehicleLoad = 0
    /\ currentCustomer = 0
    /\ currentRoute = <<>>
    /\ routes = <<>>
    /\ unvisited = {}
    /\ time = 0
    /\ violatedTimeWindows = FALSE

Grid == (0..MaxCoord) \X (0..MaxCoord)

\* costs of the instance with the locations at the points pts
CostsOf(pts) == [c \in connections |-> Distance(pts[c[1]], pts[c[2]])]

\* Customers are numbered by non-decreasing demand: every instance is such
\* an instance after renaming its customers.
InitInstance ==
    /\ demands \in {[i \in locations |-> IF i = 0 THEN 0 ELSE g[i]] :
                       g \in {h \in [customers -> 0..MaxDemand] :
                                 \A i \in 1..(numCustomers - 1) :
                                     h[i] <= h[i + 1]}}
    /\ vehicleCapacity \in 1..MaxCapacity
    /\ maxNumVehicles \in 1..MaxVehicles

\* cvrp.ipynb has no travel times, service times, time windows or time model
NoTimes ==
    /\ travelTimes = [c \in connections |-> 0]
    /\ serviceTimes = [i \in locations |-> 0]
    /\ timeWindows = [i \in locations |-> <<0, 0>>]
    /\ timeWindowWidthRange = <<0, 0>>
    /\ timeModelType = 0

InitRest ==
    /\ model = {}
    /\ SolCount = 0
    /\ Status = "LOADED"
    /\ ObjVal = 0
    /\ x = {}
    /\ pc = "basic"
    /\ NoDecoder
    /\ iis = FALSE

\* All locations at one point: every cost is 0, every feasible arc selection
\* is optimal and optimize() may return any of them.
Init ==
    /\ InitInstance
    /\ NoTimes
    /\ points = [i \in locations |-> <<0, 0>>]
    /\ costs = CostsOf(points)
    /\ vehicleIndexedRoutes = 0
    /\ capacityCuts = 0
    /\ loadModelType \in 1..4
    /\ InitRest

\* cell "Basic Route Model Implementation"
BasicRouteModel ==
    /\ pc = "basic"
    /\ model' = BasicFamilies(vehicleIndexedRoutes)
    /\ pc' = "load"
    /\ UNCHANGED <<instance, config, solver, decoder, clock, iis>>

\* cell "Load Model Implementation"
LoadModel ==
    /\ pc = "load"
    /\ model' = model \cup CutFamilies(capacityCuts)
                      \cup LoadFamilies(loadModelType)
    /\ pc' = "optimize"
    /\ UNCHANGED <<instance, config, solver, decoder, clock, iis>>

\* cell "Solve Model": model.optimize() returns an optimal solution of the
\* model, or reports that there is none
Optimize ==
    /\ pc = "optimize"
    /\ \E sols \in {Solutions(model)} :
           IF sols = {}
           THEN /\ SolCount' = 0
                /\ Status' = "INFEASIBLE"
                /\ UNCHANGED <<ObjVal, x>>
           ELSE /\ SolCount' = 1
                /\ Status' = "OPTIMAL"
                /\ ObjVal' = Minimum({Objective(xx) : xx \in sols})
                /\ x' \in {xx \in sols : Objective(xx) = ObjVal'}
    /\ pc' = "retrieve"
    /\ UNCHANGED <<instance, config, model, decoder, clock, iis>>

\* ------------------------------------------- solution retrieval (cell 16)
\* x.keys() enumerates the arcs in the order of the list "connections":
\* by tail, then by head
ArcBefore(a, b) == a[1] < b[1] \/ (a[1] = b[1] /\ a[2] < b[2])
RECURSIVE ArcSeq(_)
ArcSeq(S) ==
    IF S = {} THEN <<>>
    ELSE LET m == CHOOSE a \in S : \A b \in S : a = b \/ ArcBefore(a, b)
         IN  <<m>> \o ArcSeq(S \ {m})

\* d[k] = v on a dict
Put(d, k, v) == [e \in DOMAIN d \cup {k} |-> IF e = k THEN v ELSE d[e]]

\* mutant: the list of first customers is replaced, not extended
RECURSIVE BuildNextCustomer_Overwrite(_, _)
BuildNextCustomer_Overwrite(uc, nc) ==
    IF uc = <<>> THEN nc
    ELSE LET i == Head(uc)[1]
             j == Head(uc)[2]
         IN  BuildNextCustomer_Overwrite(Tail(uc),
                IF i = 0 THEN Put(nc, 0, <<j>>) ELSE Put(nc, i, j))
\* the loop "for (i, j) in usedConnections" that fills nextCustomer
RECURSIVE BuildNextCustomer(_, _)
BuildNextCustomer(uc, nc) ==
    IF uc = <<>> THEN nc
    ELSE LET i == Head(uc)[1]
             j == Head(uc)[2]
         IN  BuildNextCustomer(Tail(uc),
                IF i = 0
                THEN Put(nc, 0, IF 0 \notin DOMAIN nc THEN <<j>>
                                ELSE Append(nc[0], j))
                ELSE Put(nc, i, j))

\* mutant: the retrieval cell without its test of model.SolCount
RetrieveSolution_Unguarded ==
    /\ pc = "retrieve"
    /\ usedConnections' = ArcSeq(x)
    /\ nextCustomer' = BuildNextCustomer(usedConnections', <<>>)
    /\ pc' = "header"
    /\ UNCHANGED <<instance, config, model, solver, numRoutes, routeNumber,
                   visitedCustomers, vehicleLoad, currentCustomer,
                   currentRoute, routes, unvisited, clock,
                   iis>>
\* if model.SolCount >= 1: usedConnections, nextCustomer
RetrieveSolution ==
    /\ pc = "retrieve"
    /\ SolCount >= 1
    /\ usedConnections' = ArcSeq(x)
    /\ nextCustomer' = BuildNextCustomer(usedConnections', <<>>)
    /\ pc' = "header"
    /\ UNCHANGED <<instance, config, model, solver, numRoutes, routeNumber,
                   visitedCustomers, vehicleLoad, currentCustomer,
                   currentRoute, routes, unvisited, clock,
                   iis>>

\* model.SolCount = 0: the retrieval cell does nothing
SkipRetrieval ==
    /\ pc = "retrieve"
    /\ SolCount < 1
    /\ pc' = "iis"
    /\ UNCHANGED <<instance, config, model, solver, decoder, clock, iis>>

\* print(f"Solution contains {len(nextCustomer[0])} routes:") and the two
\* initialisations after it; nextCustomer[0] raises KeyError without the key
PrintHeader ==
    /\ pc = "header"
    /\ IF 0 \in DOMAIN nextCustomer
       THEN /\ numRoutes' = Len(nextCustomer[0])
            /\ routeNumber' = 0
            /\ visitedCustomers' = [c \in locations |-> FALSE]
            /\ pc' = "route"
       ELSE /\ pc' = "KeyError"
            /\ UNCHANGED <<numRoutes, routeNumber, visitedCustomers>>
    /\ UNCHANGED <<instance, config, model, solver, usedConnections,
                   nextCustomer, vehicleLoad, currentCustomer, currentRoute,
                   routes, unvisited, clock, iis>>

\* for firstCustomer in nextCustomer[0]: start of one iteration
StartRoute ==
    /\ pc = "route"
    /\ routeNumber < Len(nextCustomer[0])
    /\ vehicleLoad' = 0
    /\ currentCustomer' = nextCustomer[0][routeNumber + 1]
    /\ currentRoute' = <<>>
    /\ pc' = "walk"
    /\ UNCHANGED <<instance, config, model, solver, usedConnections,
                   nextCustomer, numRoutes, routeNumber, visitedCustomers,
                   routes, unvisited, clock, iis>>

\* A walk that reaches the depot prints at most numCustomers customers, adds
\* at most numCustomers * MaxDemand to the load and ends before TimeCap.  A
\* walk that never reaches the depot goes on printing and adding: the model
\* keeps the first WalkCap customers of its line and lets the accumulators
\* stay at LoadCap and TimeCap, so that such a walk is a cycle of states.
WalkCap == numCustomers + 1
LoadCap == numCustomers * MaxDemand + 1
TimeCap == timeHorizon + numCustomers * (MaxService + timeHorizon) + 1

Min(a, b) == IF a <= b THEN a ELSE b

Printed(line, c) == IF Len(line) < WalkCap THEN Append(line, c) ELSE line

\* mutant: the walk does not move on to the successor
WalkStep_NoAdvance ==
    /\ pc = "walk"
    /\ currentCustomer # 0
    /\ currentRoute' = Printed(currentRoute, currentCustomer)
    /\ visitedCustomers' = [visitedCustomers EXCEPT ![currentCustomer] = TRUE]
    /\ vehicleLoad' = Min(vehicleLoad + demands[currentCustomer], LoadCap)
    /\ currentCustomer' = currentCustomer
    /\ pc' = "walk"
    /\ UNCHANGED <<instance, config, model, solver, usedConnections,
                   nextCustomer, numRoutes, routeNumber, routes, unvisited,
                   clock, iis>>
\* one iteration of "while currentCustomer != 0"
WalkStep ==
    /\ pc = "walk"
    /\ currentCustomer # 0
    /\ currentRoute' = Printed(currentRoute, currentCustomer)
    /\ visitedCustomers' = [visitedCustomers EXCEPT ![currentCustomer] = TRUE]
    /\ vehicleLoad' = Min(vehicleLoad + demands[currentCustomer], LoadCap)
    /\ IF currentCustomer \in DOMAIN nextCustomer
       THEN /\ currentCustomer' = nextCustomer[currentCustomer]
            /\ pc' = "walk"
       ELSE /\ currentCustomer' = currentCustomer
            /\ pc' = "KeyError"
    /\ UNCHANGED <<instance, config, model, solver, usedConnections,
                   nextCustomer, numRoutes, routeNumber, routes, unvisited,
                   clock, iis>>

\* after the while loop: the route line, the capacity check, routeNumber += 1
EndRoute ==
    /\ pc = "walk"
    /\ currentCustomer = 0
    /\ routes' = Append(routes,
                    [route    |-> currentRoute,
                     load     |-> vehicleLoad,
                     exceeded |-> vehicleLoad > vehicleCapacity])
    /\ routeNumber' = routeNumber + 1
    /\ pc' = "route"
    /\ UNCHANGED <<instance, config, model, solver, usedConnections,
                   nextCustomer, numRoutes, visitedCustomers, vehicleLoad,
                   currentCustomer, currentRoute, unvisited, clock, iis>>

\* mutant: the customers with the flag set are printed
PrintUnvisited_Visited ==
    /\ pc = "route"
    /\ routeNumber >= Len(nextCustomer[0])
    /\ unvisited' = {c \in customers : visitedCustomers[c] = TRUE}
    /\ pc' = "iis"
    /\ UNCHANGED <<instance, config, model, solver, usedConnections,
                   nextCustomer, numRoutes, routeNumber, visitedCustomers,
                   vehicleLoad, currentCustomer, currentRoute, routes, clock,
                   iis>>
\* after the for loop: print("Unvisited customers: ") and its loop
PrintUnvisited ==
    /\ pc = "route"
    /\ routeNumber >= Len(nextCustomer[0])
    /\ unvisited' = {c \in customers : visitedCustomers[c] = FALSE}
    /\ pc' = "iis"
    /\ UNCHANGED <<instance, config, model, solver, usedConnections,
                   nextCustomer, numRoutes, routeNumber, visitedCustomers,
                   vehicleLoad, currentCustomer, currentRoute, routes, clock,
                   iis>>

\* cell 17: if model.Status == GRB.INFEASIBLE: computeIIS(), write("iis.ilp")
ComputeIIS ==
    /\ pc = "iis"
    /\ iis' = (Status = "INFEASIBLE")
    /\ pc' = "done"
    /\ UNCHANGED <<instance, config, model, solver, decoder, clock>>

Next ==
    \/ BasicRouteModel
    \/ LoadModel
    \/ Optimize
    \/ RetrieveSolution
    \/ SkipRetrieval
    \/ PrintHeader
    \/ StartRoute
    \/ WalkStep
    \/ EndRoute
    \/ PrintUnvisited
    \/ ComputeIIS

Spec == Init /\ [][Next]_vars

\* The notebook with rounded capacity cuts switched off and on, with a load
\* model and with a loadModelType that the if / elif chain does not list.
InitCuts ==
    /\ InitInstance
    /\ NoTimes
    /\ maxNumVehicles = MaxVehicles
    /\ points = [i \in locations |-> <<0, 0>>]
    /\ costs = CostsOf(points)
    /\ vehicleIndexedRoutes = 0
    /\ capacityCuts \in {0, 2, 3}
    /\ loadModelType \in 0..4
    /\ InitRest

SpecCuts == InitCuts /\ [][Next]_vars

\* The notebook without and with vehicle-indexed route variables.
InitVehicles ==
    /\ InitInstance
    /\ NoTimes
    /\ points = [i \in locations |-> <<0, 0>>]
    /\ costs = CostsOf(points)
    /\ vehicleIndexedRoutes \in {0, 1}
    /\ capacityCuts = 0
    /\ loadModelType \in {0, 2}
    /\ InitRest

SpecVehicles == InitVehicles /\ [][Next]_vars

\* The notebook on instances with the locations at any points of the grid.
InitCosts ==
    /\ InitInstance
    /\ NoTimes
    /\ vehicleCapacity = MaxCapacity
    /\ maxNumVehicles = MaxVehicles
    /\ points \in [locations -> Grid]
    /\ costs = CostsOf(points)
    /\ vehicleIndexedRoutes = 0
    /\ capacityCuts = 0
    /\ loadModelType \in 1..4
    /\ InitRest

SpecCosts == InitCosts /\ [][Next]_vars

\* ------------------------------------------------------------ vrptw.ipynb
maximalCosts == CeilSqrt(2 * MaxCoord * MaxCoord)

\* math.ceil((costs[i, j] / maximalCosts) * timeHorizon * 0.2) with the
\* horizon h and the maximal costs mc
TravelTimesFor(cs, h, mc) ==
    [c \in connections |-> Ceil(cs[c] * h, 5 * mc)]
TravelTimesOf(cs) == TravelTimesFor(cs, timeHorizon, maximalCosts)

Windows == {w \in (0..timeHorizon) \X (0..timeHorizon) : w[1] <= w[2]}

WindowBefore(v, w) == v[1] < w[1] \/ (v[1] = w[1] /\ v[2] <= w[2])

\* Instances of vrptw.ipynb: the depot at the origin and every customer at
\* one of two points, unit demands, a vehicle that can carry all of them,
\* one service time for all customers, any time windows inside the horizon.  Customers are numbered by
\* non-decreasing time window.
InitTW ==
    /\ points \in {[i \in locations |-> IF i = 0 THEN <<0, 0>> ELSE <<0, g[i]>>] :
                      g \in [customers -> {0, MaxCoord}]}
    /\ costs = CostsOf(points)
    /\ travelTimes = TravelTimesOf(costs)
    /\ demands = [i \in locations |-> IF i = 0 THEN 0 ELSE 1]
    /\ vehicleCapacity = numCustomers
    /\ maxNumVehicles = MaxVehicles
    /\ \E s \in 0..MaxService :
          serviceTimes = [i \in locations |-> IF i = 0 THEN 0 ELSE s]
    /\ timeWindows \in
          {[i \in locations |-> IF i = 0 THEN <<0, timeHorizon>> ELSE w[i]] :
              w \in {v \in [customers -> Windows] :
                        \A i \in 1..(numCustomers - 1) :
                            WindowBefore(v[i], v[i + 1])}}
    /\ timeWindowWidthRange = <<0, timeHorizon>>
    /\ vehicleIndexedRoutes = 0
    /\ capacityCuts = 0
    /\ loadModelType \in 0..2
    /\ timeModelType \in 1..2
    /\ InitRest

\* cell "Load and Time Model Implementation"
LoadAndTimeModel ==
    /\ pc = "load"
    /\ model' = model \cup LoadFamiliesTW(loadModelType)
                      \cup TimeFamilies(timeModelType)
    /\ pc' = "optimize"
    /\ UNCHANGED <<instance, config, solver, decoder, clock, iis>>

\* mutant: the load and the flag are set once, before the for loop
StartRouteTW_NoReset ==
    /\ pc = "route"
    /\ routeNumber < Len(nextCustomer[0])
    /\ time' = travelTimes[<<0, nextCustomer[0][routeNumber + 1]>>]
    /\ currentCustomer' = nextCustomer[0][routeNumber + 1]
    /\ currentRoute' = <<>>
    /\ pc' = "walk"
    /\ UNCHANGED <<instance, config, model, solver, usedConnections,
                   nextCustomer, numRoutes, routeNumber, visitedCustomers,
                   vehicleLoad, violatedTimeWindows, routes, unvisited, iis>>
\* for firstCustomer in nextCustomer[0]: start of one iteration
StartRouteTW ==
    /\ pc = "route"
    /\ routeNumber < Len(nextCustomer[0])
    /\ vehicleLoad' = 0
    /\ time' = travelTimes[<<0, nextCustomer[0][routeNumber + 1]>>]
    /\ violatedTimeWindows' = FALSE
    /\ currentCustomer' = nextCustomer[0][routeNumber + 1]
    /\ currentRoute' = <<>>
    /\ pc' = "walk"
    /\ UNCHANGED <<instance, config, model, solver, usedConnections,
                   nextCustomer, numRoutes, routeNumber, visitedCustomers,
                   routes, unvisited, iis>>

\* mutant: the vehicle does not wait for the window to open
Max_NoWait(a, b) == a
Max(a, b) == IF a >= b THEN a ELSE b

\* mutant: the walk marks a customer as served by clearing its demand
WalkStepTW_ClearsDemand ==
    /\ pc = "walk"
    /\ currentCustomer # 0
    /\ currentRoute' = Printed(currentRoute, currentCustomer)
    /\ visitedCustomers' = [visitedCustomers EXCEPT ![currentCustomer] = TRUE]
    /\ vehicleLoad' = Min(vehicleLoad + demands[currentCustomer], LoadCap)
    /\ demands' = [demands EXCEPT ![currentCustomer] = 0]
    /\ LET arrival == Max(time, timeWindows[currentCustomer][1])
       IN  /\ violatedTimeWindows' =
                  (violatedTimeWindows
                      \/ arrival > timeWindows[currentCustomer][2])
           /\ IF currentCustomer \in DOMAIN nextCustomer
              THEN /\ time' = Min(arrival + serviceTimes[currentCustomer]
                                     + travelTimes[<<currentCustomer,
                                           nextCustomer[currentCustomer]>>],
                                   TimeCap)
                   /\ currentCustomer' = nextCustomer[currentCustomer]
                   /\ pc' = "walk"
              ELSE /\ time' = arrival
                   /\ currentCustomer' = currentCustomer
                   /\ pc' = "KeyError"
    /\ UNCHANGED <<points, costs, vehicleCapacity, maxNumVehicles,
                   travelTimes, serviceTimes, timeWindows,
                   timeWindowWidthRange, config, model,
                   solver, usedConnections, nextCustomer, numRoutes,
                   routeNumber, routes, unvisited, iis>>
\* one iteration of "while currentCustomer != 0"
WalkStepTW ==
    /\ pc = "walk"
    /\ currentCustomer # 0
    /\ currentRoute' = Printed(currentRoute, currentCustomer)
    /\ visitedCustomers' = [visitedCustomers EXCEPT ![currentCustomer] = TRUE]
    /\ vehicleLoad' = Min(vehicleLoad + demands[currentCustomer], LoadCap)
    /\ LET arrival == Max(time, timeWindows[currentCustomer][1])
       IN  /\ violatedTimeWindows' =
                  (violatedTimeWindows
                      \/ arrival > timeWindows[currentCustomer][2])
           /\ IF currentCustomer \in DOMAIN nextCustomer
              THEN /\ time' = Min(arrival + serviceTimes[currentCustomer]
                                     + travelTimes[<<currentCustomer,
                                           nextCustomer[currentCustomer]>>],
                                   TimeCap)
                   /\ currentCustomer' = nextCustomer[currentCustomer]
                   /\ pc' = "walk"
              ELSE /\ time' = arrival
                   /\ currentCustomer' = currentCustomer
                   /\ pc' = "KeyError"
    /\ UNCHANGED <<instance, config, model, solver, usedConnections,
                   nextCustomer, numRoutes, routeNumber, routes, unvisited,
                   iis>>

\* after the while loop: the route line, the two checks, routeNumber += 1
EndRouteTW ==
    /\ pc = "walk"
    /\ currentCustomer = 0
    /\ routes' = Append(routes,
                    [route    |-> currentRoute,
                     load     |-> vehicleLoad,
                     exceeded |-> vehicleLoad > vehicleCapacity,
                     time     |-> time,
                     violated |-> violatedTimeWindows])
    /\ routeNumber' = routeNumber + 1
    /\ pc' = "route"
    /\ UNCHANGED <<instance, config, model, solver, usedConnections,
                   nextCustomer, numRoutes, visitedCustomers, vehicleLoad,
                   currentCustomer, currentRoute, unvisited, clock, iis>>

NextTW ==
    \/ BasicRouteModel
    \/ LoadAndTimeModel
    \/ Optimize
    \/ RetrieveSolution
    \/ SkipRetrieval
    \/ PrintHeader
    \/ StartRouteTW
    \/ WalkStepTW
    \/ EndRouteTW
    \/ PrintUnvisited
    \/ ComputeIIS

SpecTW == InitTW /\ [][NextTW]_vars

\* ------------------------------------------- the retrieval cell by itself
\* The retrieval cell of cvrp.ipynb applied to any x in which every customer
\* has one selected outgoing arc; customer i has demand (i + o) modulo
\* MaxDemand + 1, and the vehicle carries MaxCapacity or all demands.
DecodeDemands ==
    {[i \in locations |-> IF i = 0 THEN 0 ELSE (i + o) % (MaxDemand + 1)] :
        o \in 0..MaxDemand}

InitDecodeRest ==
    /\ NoTimes
    /\ points = [i \in locations |-> <<0, 0>>]
    /\ costs = CostsOf(points)
    /\ vehicleCapacity \in {MaxCapacity, numCustomers * MaxDemand}
    /\ maxNumVehicles = MaxVehicles
    /\ vehicleIndexedRoutes = 0
    /\ capacityCuts = 0
    /\ loadModelType = 0
    /\ model = BasicFamilies(0)
    /\ SolCount = 1
    /\ Status = "OPTIMAL"
    /\ ObjVal = 0
    /\ pc = "retrieve"
    /\ NoDecoder
    /\ iis = FALSE

InitDecode ==
    /\ demands \in DecodeDemands
    /\ x \in ArcSelections
    /\ InitDecodeRest

NextDecode ==
    \/ RetrieveSolution
    \/ PrintHeader
    \/ StartRoute
    \/ WalkStep
    \/ EndRoute
    \/ PrintUnvisited

SpecDecode == InitDecode /\ [][NextDecode]_vars

\* The interpreter goes on executing the cell as long as it has a next step.
SpecDecodeFair == SpecDecode /\ WF_vars(NextDecode)

\* ... applied to an x with one arc added to or removed from such a selection
MalformedSelections ==
    {xx \cup {c} : xx \in ArcSelections, c \in {d \in connections : d[1] # 0}}
        \cup {xx \ {c} : xx \in ArcSelections, c \in connections}

InitMalformed ==
    /\ demands \in DecodeDemands
    /\ x \in MalformedSelections
    /\ InitDecodeRest

SpecMalformed == InitMalformed /\ [][NextDecode]_vars

\* The retrieval cell of vrptw.ipynb applied to any x with one selected arc
\* into and one out of every customer.  The depot is at the origin and every
\* customer at one of two points; all customers have one service time and
\* one window width, and customer i's window starts at (i + o) modulo the
\* number of starts that keep the window inside the horizon.
PatternWindows ==
    {[i \in locations |->
         IF i = 0 THEN <<0, timeHorizon>>
         ELSE <<(i + o) % (timeHorizon - w + 1),
                ((i + o) % (timeHorizon - w + 1)) + w>>] :
        w \in 0..timeHorizon, o \in 0..timeHorizon}

InitDecodeTW ==
    /\ points \in {[i \in locations |-> IF i = 0 THEN <<0, 0>> ELSE <<0, g[i]>>] :
                      g \in [customers -> {0, MaxCoord}]}
    /\ costs = CostsOf(points)
    /\ travelTimes = TravelTimesOf(costs)
    /\ demands = [i \in locations |-> IF i = 0 THEN 0 ELSE 1]
    /\ vehicleCapacity = numCustomers
    /\ maxNumVehicles = MaxVehicles
    /\ \E s \in 0..MaxService :
          serviceTimes = [i \in locations |-> IF i = 0 THEN 0 ELSE s]
    /\ timeWindows \in PatternWindows
    /\ timeWindowWidthRange = <<0, timeHorizon>>
    /\ vehicleIndexedRoutes = 0
    /\ capacityCuts = 0
    /\ loadModelType = 0
    /\ timeModelType = 0
    /\ model = BasicFamilies(0)
    /\ x \in DegreeSelections
    /\ SolCount = 1
    /\ Status = "OPTIMAL"
    /\ ObjVal = Objective(x)
    /\ pc = "retrieve"
    /\ NoDecoder
    /\ iis = FALSE

NextDecodeTW ==
    \/ RetrieveSolution
    \/ PrintHeader
    \/ StartRouteTW
    \/ WalkStepTW
    \/ EndRouteTW
    \/ PrintUnvisited

SpecDecodeTW == InitDecodeTW /\ [][NextDecodeTW]_vars

\* ... and with the demands of DecodeDemands and a vehicle of capacity
\* MaxCapacity, so that some routes carry more than the vehicle can.
InitDecodeTWLoad ==
    /\ points \in {[i \in locations |-> <<0, 0>>],
                   [i \in locations |-> <<0, (i % 2) * MaxCoord>>]}
    /\ costs = CostsOf(points)
    /\ travelTimes = TravelTimesOf(costs)
    /\ demands \in DecodeDemands
    /\ vehicleCapacity = MaxCapacity
    /\ maxNumVehicles = MaxVehicles
    /\ \E s \in 0..MaxService :
          serviceTimes = [i \in locations |-> IF i = 0 THEN 0 ELSE s]
    /\ timeWindows \in PatternWindows
    /\ timeWindowWidthRange = <<0, timeHorizon>>
    /\ vehicleIndexedRoutes = 0
    /\ capacityCuts = 0
    /\ loadModelType = 0
    /\ timeModelType = 0
    /\ model = BasicFamilies(0)
    /\ x \in DegreeSelections
    /\ SolCount = 1
    /\ Status = "OPTIMAL"
    /\ ObjVal = Objective(x)
    /\ pc = "retrieve"
    /\ NoDecoder
    /\ iis = FALSE

SpecDecodeTWLoad == InitDecodeTWLoad /\ [][NextDecodeTW]_vars

\* vrptw.ipynb with a time model and no load model on the instances with
\* all locations at the origin or with the odd customers at a second point,
\* one service time for all customers and the windows of PatternWindows.
InitTWSolve ==
    /\ points \in {[i \in locations |-> <<0, 0>>],
                   [i \in locations |-> <<0, (i % 2) * MaxCoord>>]}
    /\ costs = CostsOf(points)
    /\ travelTimes = TravelTimesOf(costs)
    /\ demands = [i \in locations |-> IF i = 0 THEN 0 ELSE 1]
    /\ vehicleCapacity = numCustomers
    /\ maxNumVehicles = MaxVehicles
    /\ \E s \in 0..MaxService :
          serviceTimes = [i \in locations |-> IF i = 0 THEN 0 ELSE s]
    /\ timeWindows \in PatternWindows
    /\ timeWindowWidthRange = <<0, timeHorizon>>
    /\ vehicleIndexedRoutes = 0
    /\ capacityCuts = 0
    /\ loadModelType = 0
    /\ timeModelType \in 1..2
    /\ InitRest

SpecTWSolve == InitTWSolve /\ [][NextTW]_vars

\* ------------------------------------ instance generation (vrptw.ipynb)
\* The documented examples: 3 of the 30 customers, time horizon 100,
\* service times 2..4, demands 2..5, window widths 80..90 (Example 1) or
\* 10..15 (Example 2), points with coordinates 0..999.
ExampleTimeHorizon    == 100
ExampleMaxCoord       == 999
\* math.ceil(999 * math.sqrt(2))
ExampleMaximalCosts   == 1413
ExampleVehicleCapacity == 30
ExampleMaxNumVehicles == 5
demandRange           == <<2, 5>>
serviceTimeRange      == <<2, 4>>
ExampleWidthRanges    == {<<80, 90>>, <<10, 15>>}

\* mutant: the way back to the depot is left out
StartRangeEnd_NoTravel(h, s, w, t) == h - s - w
\* upper end of the range of random.randint for the start of i's window
StartRangeEnd(h, s, w, t) == h - s - w - t

\* the state after the cell INSTANCE CONFIGURATION
InitGenerate ==
    /\ timeWindowWidthRange \in ExampleWidthRanges
    /\ vehicleCapacity = ExampleVehicleCapacity
    /\ maxNumVehicles = ExampleMaxNumVehicles
    /\ points = <<>>
    /\ costs = <<>>
    /\ travelTimes = <<>>
    /\ demands = <<>>
    /\ serviceTimes = <<>>
    /\ timeWindows = <<>>
    /\ vehicleIndexedRoutes = 0
    /\ capacityCuts = 0
    /\ loadModelType = 0
    /\ timeModelType = 0
    /\ model = {}
    /\ SolCount = 0
    /\ Status = "LOADED"
    /\ ObjVal = 0
    /\ x = {}
    /\ pc = "generate"
    /\ NoDecoder
    /\ iis = FALSE

\* cell "Instance Generation".  Of the random draws the model takes the ends
\* of each range: every location at one of two opposite corners of the
\* square, one demand for all customers, and for each customer the least or
\* the greatest service time, window width and window start.  The distance
\* of the two corners, rounded up, is the value of maximalCosts.
\* random.randint(0, b) raises ValueError when b < 0; the windows of the
\* customers before that one have been stored by then.
GenerateInstance ==
    /\ pc = "generate"
    /\ \E far \in SUBSET customers :
          points' = [i \in locations |->
                        IF i \in far THEN <<ExampleMaxCoord, ExampleMaxCoord>>
                        ELSE <<0, 0>>]
    /\ costs' = [c \in connections |->
                     IF points'[c[1]] = points'[c[2]] THEN 0
                     ELSE ExampleMaximalCosts]
    /\ travelTimes' = TravelTimesFor(costs', ExampleTimeHorizon,
                                     ExampleMaximalCosts)
    /\ \E d \in {demandRange[1], demandRange[2]} :
          demands' = [i \in locations |-> IF i = 0 THEN 0 ELSE d]
    /\ \E g \in [customers -> {serviceTimeRange[1], serviceTimeRange[2]}] :
          serviceTimes' = [i \in locations |-> IF i = 0 THEN 0 ELSE g[i]]
    /\ \E timeWindowWidths \in [customers -> {timeWindowWidthRange[1],
                                               timeWindowWidthRange[2]}] :
          LET end(i) == StartRangeEnd(ExampleTimeHorizon, serviceTimes'[i],
                                      timeWindowWidths[i], travelTimes'[<<i, 0>>])
              failing == {i \in customers : end(i) < 0}
              stored == IF failing = {} THEN customers
                        ELSE {i \in customers : \A f \in failing : i < f}
              start(late, i) == IF i \in late THEN end(i) ELSE 0
          IN  /\ \E late \in SUBSET stored :
                    timeWindows' =
                        [i \in {0} \cup stored |->
                            IF i = 0 THEN <<0, 0 + ExampleTimeHorizon>>
                            ELSE <<start(late, i),
                                   start(late, i) + timeWindowWidths[i]>>]
              /\ pc' = IF failing = {} THEN "basic" ELSE "ValueError"
    /\ UNCHANGED <<vehicleCapacity, maxNumVehicles, timeWindowWidthRange,
                   config, model, solver, decoder, clock, iis>>

SpecGenerate == InitGenerate /\ [][GenerateInstance]_vars

\* Windows that the generation cell can produce for the service and travel
\* times of the state: one width w for all customers, and customer i's start
\* at (i + o) modulo the number of starts inside the horizon, or at the end
\* of its start range if that is earlier.
GeneratedWindows ==
    {[i \in locations |->
         IF i = 0 THEN <<0, 0 + timeHorizon>>
         ELSE LET end == StartRangeEnd(timeHorizon, serviceTimes[i], w,
                                       travelTimes[<<i, 0>>])
                  start == Min((i + o) % (timeHorizon - w + 1), end)
              IN  <<start, start + w>>] :
        w \in {v \in 0..timeHorizon :
                  \A i \in customers :
                      StartRangeEnd(timeHorizon, serviceTimes[i], v,
                                    travelTimes[<<i, 0>>]) >= 0},
        o \in 0..timeHorizon}

\* vrptw.ipynb with a time model and no load model on generated instances
\* with all locations at the origin or with customer 1 at a second point
InitTWGenerated ==
    /\ points \in {[i \in locations |-> <<0, 0>>],
                   [i \in locations |-> IF i = 1 THEN <<0, MaxCoord>>
                                        ELSE <<0, 0>>]}
    /\ costs = CostsOf(points)
    /\ travelTimes = TravelTimesOf(costs)
    /\ demands = [i \in locations |-> IF i = 0 THEN 0 ELSE 1]
    /\ vehicleCapacity = numCustomers
    /\ maxNumVehicles = MaxVehicles
    /\ \E s \in 0..MaxService :
          serviceTimes = [i \in locations |-> IF i = 0 THEN 0 ELSE s]
    /\ timeWindows \in GeneratedWindows
    /\ timeWindowWidthRange = <<0, timeHorizon>>
    /\ vehicleIndexedRoutes = 0
    /\ capacityCuts = 0
    /\ loadModelType = 0
    /\ timeModelType \in 1..2
    /\ InitRest

SpecTWGenerated == InitTWGenerated /\ [][NextTW]_vars

\* ... and with the depot opening at any time of the horizon: the problem
\* definition gives the depot a time window [a_0, b_0] with 0 <= a_0 <= b_0.
InitTWDepot ==
    /\ points \in {[i \in locations |-> <<0, 0>>],
                   [i \in locations |-> <<0, (i % 2) * MaxCoord>>]}
    /\ costs = CostsOf(points)
    /\ travelTimes = TravelTimesOf(costs)
    /\ demands = [i \in locations |-> IF i = 0 THEN 0 ELSE 1]
    /\ vehicleCapacity = numCustomers
    /\ maxNumVehicles = MaxVehicles
    /\ \E s \in 0..MaxService :
          serviceTimes = [i \in locations |-> IF i = 0 THEN 0 ELSE s]
    /\ \E w \in PatternWindows : \E a0 \in 0..timeHorizon :
          timeWindows = [w EXCEPT ![0] = <<a0, timeHorizon>>]
    /\ timeWindowWidthRange = <<0, timeHorizon>>
    /\ vehicleIndexedRoutes = 0
    /\ capacityCuts = 0
    /\ loadModelType = 0
    /\ timeModelType \in 1..2
    /\ InitRest

SpecTWDepot == InitTWDepot /\ [][NextTW]_vars

\* ------------------------------------------------------------ route sets
\* the locations reached from the set S along arcs of xx that do not pass
\* through the depot
RECURSIVE Closure(_, _)
Closure(xx, S) ==
    LET next == {a[2] : a \in {b \in xx : b[1] \in S}} \ {0}
    IN  IF next \subseteq S THEN S ELSE Closure(xx, S \cup next)

\* the customers of the route that starts with the arc (0, first)
RouteCustomers(xx, first) == Closure(xx, {first})
RouteDemand(xx, first)    == Sum(demands, RouteCustomers(xx, first))

FirstCustomers(xx)   == {a[2] : a \in {b \in xx : b[1] = 0}}
SubTourCustomers(xx) == customers \ Closure(xx, FirstCustomers(xx))

\* xx is the arc set of a set of at most maxNumVehicles depot-to-depot routes
\* that visit every customer exactly once and respect the capacity
ValidRouteSet(xx) ==
    /\ incoming(xx)
    /\ outgoing(xx)
    /\ SubTourCustomers(xx) = {}
    /\ XSumOut(xx, 0) <= maxNumVehicles
    /\ \A first \in FirstCustomers(xx) :
           RouteDemand(xx, first) <= vehicleCapacity

\* the customers met from c on along the arcs of xx, up to the depot
RECURSIVE PathFrom(_, _, _)
PathFrom(xx, c, n) ==
    IF c = 0 \/ n = 0 \/ ~(\E j \in locations : <<c, j>> \in xx) THEN <<>>
    ELSE <<c>> \o PathFrom(xx, CHOOSE j \in locations : <<c, j>> \in xx, n - 1)

\* Service start at the p-th customer of the route r for a vehicle that
\* leaves the depot at time 0, waits for a window to open and drives on after
\* the service
RECURSIVE ServiceStart(_, _)
ServiceStart(r, p) ==
    LET arrival == IF p = 1 THEN travelTimes[<<0, r[1]>>]
                   ELSE ServiceStart(r, p - 1) + serviceTimes[r[p - 1]]
                            + travelTimes[<<r[p - 1], r[p]>>]
    IN  IF arrival >= timeWindows[r[p]][1] THEN arrival
        ELSE timeWindows[r[p]][1]

LoadModelNames == {"BigM", "Flows", "MultiCommodityFlows", "Discretization"}
HasLoadModel   == model \cap LoadModelNames # {}

\* ---------------------------------------------------------------- claims

\* C1: with any of the four load sub-models in the model, every route of a
\* returned arc selection that starts at the depot has a cumulative demand
\* of at most vehicleCapacity, and the retrieval never reports
\* "Vehicle capacity is exceeded!".
C1_CapacitySoundness ==
    (SolCount = 1 /\ HasLoadModel) =>
        /\ \A first \in FirstCustomers(x) :
               RouteDemand(x, first) <= vehicleCapacity
        /\ \A k \in 1..Len(routes) :
               /\ routes[k].exceeded = FALSE
               /\ routes[k].load <= vehicleCapacity

C1_Witness ==
    /\ pc = "done"
    /\ HasLoadModel
    /\ Len(routes) = 2
    /\ \E k \in 1..2 : /\ routes[k].load = vehicleCapacity
                       /\ Len(routes[k].route) >= 2

\* C2: with any of the four load sub-models in the model, no returned arc
\* selection contains a cycle of customers that does not touch the depot.
C2_SubTourExclusion ==
    (SolCount = 1 /\ HasLoadModel) => SubTourCustomers(x) = {}

\* C3: with the Big-M time model or the flow time model and no load
\* sub-model, no arc selection with a cycle of customers that does not touch
\* the depot is feasible, for service times >= 0, travel times >= 0 and
\* windows with earliest <= latest.
C3_TimeSubTourExclusion ==
    (SolCount = 1 /\ timeModelType \in {1, 2} /\ ~HasLoadModel) =>
        SubTourCustomers(x) = {}

\* C4: every valid route set is feasible for the basic route model together
\* with the load sub-model that was added.
C4_Completeness ==
    (pc = "optimize" /\ HasLoadModel) =>
        \A xx \in DegreeSelections : ValidRouteSet(xx) => Feasible(model, xx)

C4_Witness ==
    /\ pc = "retrieve"
    /\ SolCount = 1
    /\ HasLoadModel
    /\ ValidRouteSet(x)
    /\ XSumOut(x, 0) = 2
    /\ \E i \in customers : \E j \in customers :
          /\ <<i, j>> \notin x
          /\ i # j
          /\ demands[i] + demands[j] > vehicleCapacity
    /\ \E first \in FirstCustomers(x) :
          /\ RouteDemand(x, first) = vehicleCapacity
          /\ Cardinality(RouteCustomers(x, first)) = 2

\* C5: an arc selection that satisfies the basic route constraints is feasible
\* under one load sub-model iff it is feasible under each of the others.
C5_SameFeasibleRegion ==
    pc = "optimize" =>
        \A xx \in DegreeSelections : BaseRouteConstraints(xx) =>
            /\ addVehicleLoadConstraintsByBigM(xx)
                   <=> addVehicleLoadConstraintsByFlows(xx)
            /\ addVehicleLoadConstraintsByFlows(xx)
                   <=> addVehicleLoadConstraintsByMultiCommodityFlows(xx)
            /\ addVehicleLoadConstraintsByMultiCommodityFlows(xx)
                   <=> addVehicleLoadConstraintsByDiscretization(xx)

\* C6: the optimal objective value of the basic route model with one load
\* sub-model is the minimum total cost over all valid route sets, and the
\* model is infeasible exactly if there is no valid route set.
ReferenceRouteSets == {xx \in DegreeSelections : ValidRouteSet(xx)}
C6_OptimalValue ==
    (pc = "retrieve" /\ HasLoadModel) =>
        IF ReferenceRouteSets = {}
        THEN SolCount = 0
        ELSE /\ SolCount = 1
             /\ ObjVal = Minimum({Objective(xx) : xx \in ReferenceRouteSets})

\* C7: with capacityCuts >= 2 every pair of customers i < j satisfies
\* x[i,j] + x[j,i] <= 2 - ceil((d_i + d_j) / Q); both direct arcs are
\* forbidden when Q < d_i + d_j <= 2Q, only the two-customer cycle when
\* 0 < d_i + d_j <= Q; for demands 4 and 4 and capacity 5 the bound is 0.
LeastMultiple(a, b) ==
    CHOOSE n \in 0..a : n * b >= a /\ (n = 0 \/ (n - 1) * b < a)
C7_PairCut ==
    /\ 2 - LeastMultiple(4 + 4, 5) = 0
    /\ (SolCount = 1 /\ capacityCuts >= 2) =>
          \A i \in customers : \A j \in customers : i < j =>
             LET dij == demands[i] + demands[j]
             IN  /\ X(x, i, j) + X(x, j, i)
                        <= 2 - LeastMultiple(dij, vehicleCapacity)
                 /\ (vehicleCapacity < dij /\ dij <= 2 * vehicleCapacity)
                        => (<<i, j>> \notin x /\ <<j, i>> \notin x)
                 /\ (0 < dij /\ dij <= vehicleCapacity)
                        => ~(<<i, j>> \in x /\ <<j, i>> \in x)

C7_Witness ==
    /\ SolCount = 1
    /\ capacityCuts >= 2
    /\ ~HasLoadModel
    /\ \E i \in customers : \E j \in customers :
          /\ i < j
          /\ demands[i] + demands[j] > vehicleCapacity
          /\ demands[i] + demands[j] <= 2 * vehicleCapacity
    /\ \E i \in customers : \E j \in customers :
          /\ i < j
          /\ 0 < demands[i] + demands[j]
          /\ demands[i] + demands[j] <= vehicleCapacity
          /\ <<i, j>> \in x

\* C8: every valid route set satisfies every rounded capacity cut for
\* customer subsets of size 2 and 3; with a load sub-model and positive
\* demands, every arc selection feasible without the cuts satisfies them, so
\* capacityCuts = 0, 2 and 3 give the same feasible arc selections.
AllDemandsPositive == \A c \in customers : demands[c] > 0
C8_CutsValid ==
    pc = "optimize" =>
        /\ \A xx \in DegreeSelections :
               ValidRouteSet(xx) => (capcut2(xx) /\ capcut3(xx))
        /\ (HasLoadModel /\ AllDemandsPositive) =>
               \A xx \in Solutions(model \ {"capcut2", "capcut3"}) :
                   capcut2(xx) /\ capcut3(xx)

C8_Witness ==
    /\ SolCount = 1
    /\ "capcut3" \in model
    /\ HasLoadModel
    /\ AllDemandsPositive
    /\ ValidRouteSet(x)
    /\ \E first \in FirstCustomers(x) :
           /\ Cardinality(RouteCustomers(x, first)) >= 2
           /\ RouteDemand(x, first) = vehicleCapacity

\* C9: with at least one vehicle, an arc selection satisfies the basic route
\* constraints and admits vehicle-indexed variables v iff it satisfies the
\* basic route constraints alone.
C9_VehicleIndexRedundant ==
    pc = "optimize" =>
        /\ \A xx \in DegreeSelections :
               BaseRouteConstraints(xx) => VehicleIndexedFeasible(xx)
        /\ Solutions(model) = Solutions(model \ {"vehicleIndexed"})

C9_Witness ==
    /\ SolCount = 1
    /\ "vehicleIndexed" \in model
    /\ maxNumVehicles = 2
    /\ XSumOut(x, 0) = 2

\* C10: with a load sub-model, the number of arcs leaving the depot in a
\* returned arc selection is at least ceil(total demand / Q) and at most K
\* and is the number of routes that the retrieval cell reports; the
\* constraint minNumVehicles holds for every set of depot-to-depot routes
\* that serves every customer once within the capacity.
RoutesWithinCapacity(xx) ==
    /\ incoming(xx)
    /\ outgoing(xx)
    /\ SubTourCustomers(xx) = {}
    /\ \A first \in FirstCustomers(xx) :
           RouteDemand(xx, first) <= vehicleCapacity
C10_RouteCount ==
    /\ (SolCount = 1 /\ HasLoadModel) =>
          /\ XSumOut(x, 0) * vehicleCapacity >= Sum(demands, customers)
          /\ XSumOut(x, 0) <= maxNumVehicles
          /\ numRoutes # -1 => numRoutes = XSumOut(x, 0)
          /\ pc = "done" => Len(routes) = XSumOut(x, 0)
    /\ pc = "optimize" =>
          \A xx \in DegreeSelections :
              RoutesWithinCapacity(xx) => minNumVehiclesConstr(xx)

C10_Witness ==
    /\ pc = "done"
    /\ HasLoadModel
    /\ numRoutes = 2
    /\ numRoutes = numVehiclesNeededForCustomers(customers)
    /\ numRoutes = maxNumVehicles

\* C11: for an arc selection that encodes depot-to-depot routes serving every
\* customer once within the capacity, the retrieval cell prints one route per
\* arc leaving the depot, each route is the customer sequence of its path in
\* visiting order, every customer is on exactly one route exactly once, no
\* route is reported as exceeding the capacity and no customer as unvisited.
C11_DecodeValidRouteSet ==
    RoutesWithinCapacity(x) =>
        /\ pc # "KeyError"
        /\ pc = "walk" => Len(currentRoute) <= numCustomers
        /\ pc = "iis" =>
              /\ numRoutes = XSumOut(x, 0)
              /\ Len(routes) = XSumOut(x, 0)
              /\ \A k \in 1..Len(routes) :
                    /\ routes[k].route # <<>>
                    /\ routes[k].route[1] \in FirstCustomers(x)
                    /\ routes[k].route
                          = PathFrom(x, routes[k].route[1], numCustomers)
                    /\ routes[k].load = RouteDemand(x, routes[k].route[1])
                    /\ routes[k].exceeded = FALSE
              /\ \A c \in customers :
                    Cardinality({kp \in {<<k, q>> : k \in 1..Len(routes),
                                                   q \in 1..numCustomers} :
                                    /\ kp[2] <= Len(routes[kp[1]].route)
                                    /\ routes[kp[1]].route[kp[2]] = c}) = 1
              /\ unvisited = {}

C11_Witness ==
    /\ pc = "iis"
    /\ RoutesWithinCapacity(x)
    /\ Len(routes) = 2
    /\ \E k \in 1..2 : /\ Len(routes[k].route) >= 2
                       /\ routes[k].load = vehicleCapacity

\* C12: decoding an arc selection in which some customer has no selected
\* outgoing arc or more than one ends with the error MalformedSolution: it
\* prints no route and does not complete.
OutDegree(xx, c) == Cardinality({a \in xx : a[1] = c})
MalformedOutDegree(xx) == \E c \in customers : OutDegree(xx, c) # 1
C12_MalformedRejected ==
    MalformedOutDegree(x) =>
        /\ routes = <<>>
        /\ pc # "iis"

\* C13: on every arc selection in which each customer has exactly one
\* selected outgoing arc, the retrieval cell comes to an end: every walk
\* reaches the depot or stops with an error.
C13_WalkTerminates == <>(pc \in {"iis", "KeyError", "MalformedSolution"})

\* C14: on an arc selection that satisfies the basic route constraints and has
\* an arc leaving the depot, the retrieval cell completes without error and
\* the customers it prints as unvisited are exactly the customers on cycles
\* that do not touch the depot, which are the customers not reachable from
\* the depot; none is printed iff there is no such cycle.
CycleCustomers(xx) ==
    {c \in customers :
        LET succ == {a[2] : a \in {b \in xx : b[1] = c}} \ {0}
        IN  succ # {} /\ c \in Closure(xx, succ)}
C14_UnvisitedDiagnostic ==
    (BaseRouteConstraints(x) /\ FirstCustomers(x) # {}) =>
        /\ pc # "KeyError"
        /\ pc = "walk" => Len(currentRoute) <= numCustomers
        /\ pc = "iis" =>
              /\ unvisited = CycleCustomers(x)
              /\ unvisited = SubTourCustomers(x)
              /\ Len(routes) = XSumOut(x, 0)

C14_Witness ==
    /\ pc = "iis"
    /\ BaseRouteConstraints(x)
    /\ routes # <<>>
    /\ unvisited # {}
    /\ unvisited = CycleCustomers(x)

\* C15: the retrieval cell of vrptw.ipynb reports "Time windows are
\* violated!" for a route iff the service start at some customer of the
\* route, for a vehicle leaving the depot at time 0, is later than the
\* customer's latest bound; the time printed at the end of the route is the
\* arrival back at the depot.
C15_TimeWindowFlag ==
    \A k \in 1..Len(routes) :
        LET r == routes[k].route
        IN  /\ routes[k].violated =
                  (\E p \in 1..Len(r) :
                       ServiceStart(r, p) > timeWindows[r[p]][2])
            /\ routes[k].time = ServiceStart(r, Len(r)) + serviceTimes[r[Len(r)]]
                                    + travelTimes[<<r[Len(r)], 0>>]

C15_Witness ==
    /\ pc = "iis"
    /\ BaseRouteConstraints(x)
    /\ Len(routes) = 2
    /\ routes[1].violated = FALSE
    /\ routes[2].violated = TRUE
    /\ Len(routes[2].route) = 2
    /\ ServiceStart(routes[2].route, 1) <= timeWindows[routes[2].route[1]][2]
    /\ ServiceStart(routes[2].route, 1) > travelTimes[<<0, routes[2].route[1]>>]

\* C16: with integer times and the depot window starting at 0, every arc
\* selection that satisfies the basic route constraints and the Big-M time
\* model, or the flow time model, has on every route from the depot a service
\* start within the latest bound at every customer, and the retrieval cell
\* reports no time window violation for a solution of either model.
TimeModelNames == {"timeBigM", "timeFlows"}
OnTime(xx) ==
    \A first \in FirstCustomers(xx) :
        LET r == PathFrom(xx, first, numCustomers)
        IN  \A p \in 1..Len(r) : ServiceStart(r, p) <= timeWindows[r[p]][2]
C16_TimeWindowSoundness ==
    /\ pc = "optimize" =>
          \A xx \in DegreeSelections :
              (/\ BaseRouteConstraints(xx)
               /\ \/ addTimeConstraintsByBigM(xx)
                  \/ addTimeConstraintsByFlows(xx)) => OnTime(xx)
    /\ (SolCount = 1 /\ model \cap TimeModelNames # {}) =>
          /\ OnTime(x)
          /\ violatedTimeWindows = FALSE
          /\ \A k \in 1..Len(routes) : routes[k].violated = FALSE

C16_Witness ==
    /\ pc = "iis"
    /\ SolCount = 1
    /\ model \cap TimeModelNames # {}
    /\ \E k \in 1..Len(routes) :
          LET r == routes[k].route
          IN  /\ Len(r) >= 2
              /\ ServiceStart(r, 2) = timeWindows[r[2]][2]
              /\ ServiceStart(r, 2) > timeWindows[r[2]][1]
              /\ serviceTimes[r[1]] > 0

\* C17: an instance in which some customer's demand exceeds the vehicle
\* capacity is rejected before anything is built: no constraint is ever
\* added to a model, optimize() never runs (the solver status stays as it
\* was after construction) and the run stops at InvalidInstance.
DemandExceedsCapacity == \E c \in customers : demands[c] > vehicleCapacity
C17_InvalidInstanceRejected ==
    DemandExceedsCapacity =>
        /\ model = {}
        /\ Status = "LOADED"
        /\ pc \in {"basic", "InvalidInstance"}

\* C18: no step of the retrieval cell changes the instance (points, costs,
\* demands, capacity, fleet size, travel times, service times, time
\* windows), the configuration, the model or the solver's result: a step
\* writes only the cell's own variables (successor map, visited flags,
\* per-route accumulators, printed routes and unvisited set).
C18_DecodeFrame ==
    [][UNCHANGED <<instance, config, model, solver, iis>>]_vars
\* the cell has run to its end and printed a route with a customer on it
C18_Witness ==
    /\ pc = "iis"
    /\ \E r \in 1..Len(routes) : routes[r].route # <<>>
    /\ \E c \in customers : visitedCustomers[c] /\ demands[c] > 0

\* the customers printed by "while currentCustomer != 0" started at c on
\* the successor map nc (at most n of them)
RECURSIVE WalkFrom(_, _, _)
WalkFrom(nc, c, n) ==
    IF c = 0 \/ n = 0 THEN <<>>
    ELSE IF c \notin DOMAIN nc THEN <<c>>
    ELSE <<c>> \o WalkFrom(nc, nc[c], n - 1)

\* the routes printed by "for firstCustomer in nextCustomer[0]" on nc
RoutesOf(nc) ==
    IF 0 \in DOMAIN nc
    THEN {WalkFrom(nc, nc[0][k], WalkCap) : k \in 1..Len(nc[0])}
    ELSE {}

Reverse(s) == [k \in 1..Len(s) |-> s[Len(s) + 1 - k]]

\* C19: the report does not depend on the order in which the selected arcs
\* are enumerated: when the cell has completed, filling nextCustomer from
\* the same arcs in the opposite order yields the same set of routes and the
\* same unvisited customers (only the numbering of the routes may differ).
C19_OrderIndependent ==
    pc = "iis" =>
        LET other == RoutesOf(BuildNextCustomer(Reverse(usedConnections), <<>>))
        IN  /\ {routes[k].route : k \in 1..Len(routes)} = other
            /\ unvisited = {c \in customers :
                               \A r \in other : \A q \in 1..Len(r) : r[q] # c}

\* position of a cell in the notebook's top-to-bottom execution
CellRank(p) ==
    CASE p = "basic" -> 0
      [] p = "load" -> 1
      [] p = "optimize" -> 2
      [] p = "retrieve" -> 3
      [] p \in {"header", "route", "walk", "KeyError"} -> 4
      [] p = "iis" -> 5
      [] p = "done" -> 6

\* the control points inside the body of "if model.SolCount >= 1"
RetrievalBody == {"header", "route", "walk", "KeyError"}

\* C20: the cells run in the order build, solve, decode, IIS and none runs
\* twice: the model is written only by the two building cells, the solver's
\* result only by the one optimize() step, which is never taken again, and
\* the decoder only afterwards.  The body of the retrieval cell runs only
\* when the solver returned a solution; when the solver reports
\* infeasibility nothing is decoded, no route is printed, and the run ends
\* with the IIS computed.
C20_PipelineOrder ==
    /\ [](/\ pc \in RetrievalBody => SolCount >= 1 /\ Status = "OPTIMAL"
          /\ Status = "INFEASIBLE" =>
                /\ SolCount = 0
                /\ usedConnections = <<>> /\ nextCustomer = <<>>
                /\ routes = <<>> /\ unvisited = {}
                /\ pc = "done" => iis
          /\ CellRank(pc) <= 2 => Status = "LOADED"
          /\ CellRank(pc) <= 3 => usedConnections = <<>> /\ routes = <<>>)
    /\ [][/\ CellRank(pc') >= CellRank(pc)
          /\ pc \in {"basic", "load", "optimize", "retrieve"}
                => CellRank(pc') > CellRank(pc)
          /\ model' # model => pc \in {"basic", "load"}
          /\ solver' # solver => pc = "optimize"
          /\ decoder' # decoder => CellRank(pc) \in {3, 4} /\ SolCount >= 1
          /\ iis' # iis => pc = "iis" /\ Status = "INFEASIBLE"]_vars
\* an infeasible model: the run has ended with the IIS and without routes
C20_Witness ==
    /\ pc = "done"
    /\ Status = "INFEASIBLE"
    /\ iis
    /\ model # {}
    /\ routes = <<>>

\* the rounded capacity cut of the customer set S in its original form: at
\* least ceil(d(S) / Q) selected arcs enter S from outside
RoundedCapacityCut(xx, S) ==
    Cardinality({c \in xx : c[1] \notin S /\ c[2] \in S})
        >= numVehiclesNeededForCustomers(S)

\* C21: for every arc selection with one selected arc into and one out of
\* every customer, the implemented cut of a pair or triple of customers
\* ("selected arcs inside S <= |S| - ceil(d(S)/Q)") holds if and only if the
\* original rounded capacity cut of that set ("selected arcs entering S from
\* outside >= ceil(d(S)/Q)") holds.
C21_CutFormsEquivalent ==
    (pc = "optimize" /\ capacityCuts >= 2) =>
        \A xx \in DegreeSelections :
            \A i \in customers : \A j \in (i + 1)..numCustomers :
                /\ capcut2At(xx, i, j) <=> RoundedCapacityCut(xx, {i, j})
                /\ \A k \in (j + 1)..numCustomers :
                       capcut3At(xx, i, j, k)
                           <=> RoundedCapacityCut(xx, {i, j, k})
\* the triple cuts are in the model; some selection violates the cut of a
\* triple in both forms and some selection satisfies it with equality
C21_Witness ==
    /\ pc = "optimize"
    /\ "capcut3" \in model
    /\ AllDemandsPositive
    /\ \E xx \in DegreeSelections :
           /\ ~capcut3At(xx, 1, 2, 3)
           /\ ~RoundedCapacityCut(xx, {1, 2, 3})
    /\ \E xx \in DegreeSelections :
           /\ capcut3At(xx, 1, 2, 3)
           /\ Cardinality({c \in xx : c[1] \notin {1, 2, 3} /\ c[2] \in {1, 2, 3}})
                 = numVehiclesNeededForCustomers({1, 2, 3})

\* C22: for every arc selection that satisfies the basic route constraints,
\* start times feasible for the Big-M time model exist if and only if start
\* times feasible for the flow time model exist, whatever the time window of
\* the depot is.
C22_TimeModelsEquivalent ==
    pc = "optimize" =>
        \A xx \in DegreeSelections :
            BaseRouteConstraints(xx) =>
                (addTimeConstraintsByBigM(xx) <=> addTimeConstraintsByFlows(xx))

\* the demand collected on the route r up to and including its p-th customer
RECURSIVE LoadUpTo(_, _)
LoadUpTo(r, p) == IF p = 0 THEN 0 ELSE LoadUpTo(r, p - 1) + demands[r[p]]

\* C23: in every assignment (x, y) that satisfies the basic route
\* constraints and the two Big-M load constraints, y[0] = 0, y[j] = y[i] + d_j
\* on every selected arc (i, j) into a customer j, and therefore on every
\* route from the depot y[j] is the demand collected up to and including j,
\* which is at most the capacity.
C23_BigMLoadIsCumulative ==
    (pc = "optimize" /\ "BigM" \in model) =>
        \A xx \in {s \in DegreeSelections : BaseRouteConstraints(s)} :
            \A y \in YAssignments :
                (loadBigM1(xx, y) /\ loadBigM2(xx, y)) =>
                    /\ y[0] = 0
                    /\ \A c \in xx : c[2] # 0 => y[c[2]] = y[c[1]] + demands[c[2]]
                    /\ \A first \in FirstCustomers(xx) :
                           LET r == PathFrom(xx, first, numCustomers)
                           IN  \A q \in 1..Len(r) :
                                   /\ y[r[q]] = LoadUpTo(r, q)
                                   /\ y[r[q]] <= vehicleCapacity
\* the Big-M model is built and has a feasible assignment with a route of
\* two customers with positive demands that fills the vehicle
C23_Witness ==
    /\ pc = "optimize"
    /\ "BigM" \in model
    /\ \E xx \in {s \in DegreeSelections : BaseRouteConstraints(s)} :
          \E y \in YAssignments :
              /\ loadBigM1(xx, y) /\ loadBigM2(xx, y)
              /\ \E first \in FirstCustomers(xx) :
                    LET r == PathFrom(xx, first, numCustomers)
                    IN  /\ Len(r) >= 2
                        /\ demands[r[1]] > 0 /\ demands[r[2]] > 0
                        /\ y[r[2]] = vehicleCapacity

\* C24: a loadModelType that is none of the documented codes 1..4 is
\* rejected where the load model is chosen: the run stops there with an
\* error, nothing is handed to the solver and no model without a load
\* sub-model is solved.
C24_InvalidStrategyRejected ==
    loadModelType \notin 1..4 =>
        /\ pc \in {"basic", "load", "InvalidStrategy"}
        /\ Status = "LOADED"

\* C25: every printed route's two flags are functions of that route alone
\* (its demand exceeds the capacity; some service start on it is later than
\* the latest bound), whatever routes were printed before it.  Each route
\* walk starts with load 0, the clock at the travel time from the depot to
\* the first customer and the time-window flag off; during a walk the flag
\* stays on once it is on, and a visited mark is never cleared.
C25_PerRouteDiagnostics ==
    /\ [](\A k \in 1..Len(routes) :
             LET r == routes[k].route
             IN  /\ routes[k].load = LoadUpTo(r, Len(r))
                 /\ routes[k].exceeded = (LoadUpTo(r, Len(r)) > vehicleCapacity)
                 /\ routes[k].violated =
                       (\E q \in 1..Len(r) :
                            ServiceStart(r, q) > timeWindows[r[q]][2]))
    /\ [][/\ (pc = "route" /\ pc' = "walk") =>
                 /\ vehicleLoad' = 0
                 /\ time' = travelTimes[<<0, currentCustomer'>>]
                 /\ violatedTimeWindows' = FALSE
          /\ (pc = "walk" /\ pc' = "walk" /\ violatedTimeWindows)
                 => violatedTimeWindows'
          /\ \A c \in customers : visitedCustomers[c] => visitedCustomers'[c]]_vars
\* a route without any violation has been printed after a route that
\* exceeds the capacity and misses a time window
C25_Witness ==
    /\ pc = "iis"
    /\ Len(routes) = 2
    /\ routes[1].exceeded /\ routes[1].violated
    /\ ~routes[2].exceeded /\ ~routes[2].violated
    /\ routes[2].time > 0

\* C26: for an arc selection with exactly one selected arc into and one out
\* of every customer (sub-tours allowed), as many arcs enter the depot as
\* leave it, every walk of the retrieval cell finds a successor at each
\* customer and is back at the depot after at most numCustomers customers,
\* and a walk never comes to a customer that this or an earlier walk has
\* visited; one route is printed per arc leaving the depot.
C26_DegreeWalkWellDefined ==
    (incoming(x) /\ outgoing(x)) =>
        /\ XSumIn(x, 0) = XSumOut(x, 0)
        /\ pc = "KeyError" => FirstCustomers(x) = {}
        /\ pc = "walk" =>
              /\ Len(currentRoute) <= numCustomers
              /\ currentCustomer # 0 => ~visitedCustomers[currentCustomer]
        /\ pc = "iis" =>
              /\ Len(routes) = XSumOut(x, 0)
              /\ \A k \in 1..Len(routes) :
                    /\ Len(routes[k].route) \in 1..numCustomers
                    /\ \A q \in 1..Len(routes[k].route) :
                         \A l \in 1..Len(routes) :
                           \A u \in 1..Len(routes[l].route) :
                             routes[k].route[q] = routes[l].route[u]
                                 => (k = l /\ q = u)
\* a selection with a route and a sub-tour has been decoded
C26_Witness ==
    /\ incoming(x) /\ outgoing(x)
    /\ pc = "iis"
    /\ Len(routes) = 1
    /\ unvisited # {}
    /\ XSumIn(x, 0) = 1

\* all arcs of every route from the depot carry one vehicle index
SameVehicleOnRoute(xx, veh) ==
    \A first \in FirstCustomers(xx) :
        \A c \in xx : c[1] \in RouteCustomers(xx, first)
                          => veh[c] = veh[<<0, first>>]

\* every vehicle index is on at most one arc leaving the depot
OneRoutePerVehicle(xx, veh) ==
    \A k \in vehicles :
        Cardinality({c \in xx : c[1] = 0 /\ veh[c] = k}) <= 1

\* C27: with vehicleIndexedRoutes = 1, in every assignment of x and v that
\* satisfies the basic route constraints, linking and flowConservation, the
\* arcs of one route all carry the same vehicle index and no vehicle index
\* is carried by two arcs leaving the depot.
C27_OneRoutePerVehicle ==
    (pc = "optimize" /\ "vehicleIndexed" \in model) =>
        \A xx \in {s \in DegreeSelections : BaseRouteConstraints(s)} :
            \A veh \in [xx -> vehicles] :
                (linking(xx, veh) /\ vehicleFlowConservation(xx, veh)) =>
                    /\ SameVehicleOnRoute(xx, veh)
                    /\ OneRoutePerVehicle(xx, veh)

\* C28: with the configuration of either documented example, the generation
\* cell never fails (the range of every window start is non-empty), and
\* every customer window it produces has 0 <= earliest <= latest and
\* latest + service time + travel time to the depot within the time horizon.
C28_GenerationWellFormed ==
    /\ pc # "ValueError"
    /\ (pc = "basic" /\ timeWindowWidthRange \in ExampleWidthRanges) =>
          \A i \in customers :
              /\ 0 <= timeWindows[i][1]
              /\ timeWindows[i][1] <= timeWindows[i][2]
              /\ timeWindows[i][2] + serviceTimes[i] + travelTimes[<<i, 0>>]
                    <= ExampleTimeHorizon

\* arrival back at the depot of the route r for a vehicle that leaves the
\* depot at time 0 and waits for windows to open
ArrivalBack(r) ==
    ServiceStart(r, Len(r)) + serviceTimes[r[Len(r)]] + travelTimes[<<r[Len(r)], 0>>]

\* C29: on a generated instance (every customer window ends early enough to
\* finish the service and drive back within the horizon), every route of an
\* arc selection that satisfies the basic route constraints and a time model
\* is back at the depot by timeHorizon, and the time that the retrieval cell
\* prints at the end of each route of a solution is at most timeHorizon.
C29_BackWithinHorizon ==
    /\ pc = "optimize" =>
          \A xx \in DegreeSelections :
              (/\ BaseRouteConstraints(xx)
               /\ \/ addTimeConstraintsByBigM(xx)
                  \/ addTimeConstraintsByFlows(xx)) =>
                  \A first \in FirstCustomers(xx) :
                      ArrivalBack(PathFrom(xx, first, numCustomers))
                          <= timeHorizon
    /\ (SolCount = 1 /\ model \cap TimeModelNames # {}) =>
          /\ pc = "walk" => time <= timeHorizon
          /\ \A k \in 1..Len(routes) : routes[k].time <= timeHorizon
\* a solution has a route of two customers that is back exactly at the end
\* of the horizon, after a positive travel time from its last customer
C29_Witness ==
    /\ pc = "iis"
    /\ SolCount = 1
    /\ model \cap TimeModelNames # {}
    /\ \E k \in 1..Len(routes) :
          LET r == routes[k].route
          IN  /\ Len(r) >= 2
              /\ routes[k].time = timeHorizon
              /\ travelTimes[<<r[Len(r)], 0>>] > 0

\* C30: when the selection has no arc leaving the depot, the retrieval cell
\* completes without an error, reports 0 routes, decodes no route and lists
\* every customer as unvisited.
C30_NoDepotArcDecoded ==
    FirstCustomers(x) = {} =>
        /\ pc # "KeyError"
        /\ pc = "iis" =>
              /\ numRoutes = 0
              /\ routes = <<>>
              /\ unvisited = customers

====
